---- MODULE Spec2Model ----
(***************************************************************************)
(* A model of src/src/cluster.c of redis-cluster-proxy: the hash-slot      *)
(* function, the cluster topology (nodes, slot map, parked requests), the  *)
(* topology loader and discoverer, the reconfiguration (updateCluster) and *)
(* the duplication of a topology.                                          *)
(*                                                                         *)
(* Pointers are identifiers into heaps (clusters, nodes, requests); NULL   *)
(* is 0.  Byte strings that the code scans or orders (keys, the keys of    *)
(* the requests_to_reprocess rax) are sequences of byte values.            *)
(***************************************************************************)
EXTENDS Integers, Sequences, FiniteSets, TLC

VARIABLES
    clusters,   \* heap of redisCluster objects, by identifier
    nodes,      \* heap of clusterNode objects (with their connection), by identifier
    requests,   \* heap of clientRequest objects, by identifier
    clients,    \* the clients: each one's requests_to_reprocess list
    backend,    \* the Redis cluster behind the proxy: its configuration and faults
    last,       \* the last call made on the module and what it returned
    hkey,       \* input of clusterKeyHashSlot under check (SpecHash)
    hslot       \* its output, -1 while not computed

vars == <<clusters, nodes, requests, clients, backend, last, hkey, hslot>>

NULL == 0

(***************************************************************************)
(* Bounds of the model.                                                    *)
(***************************************************************************)
MaxKeyLen == 5
MaxClusters == 3
MaxNodes == 9
MaxRequests == 2

(***************************************************************************)
(* Key space handling.                                                     *)
(***************************************************************************)
OpenBrace == 123
CloseBrace == 125

\* Bitwise exclusive or of two n-bit numbers.
RECURSIVE XorN(_, _, _)
XorN(a, b, n) ==
    IF n = 0 THEN 0
    ELSE (((a % 2) + (b % 2)) % 2) + 2 * XorN(a \div 2, b \div 2, n - 1)

Xor16(a, b) == XorN(a, b, 16)

\* One byte of CRC-16/CCITT (polynomial 0x1021), bit by bit, in 16 bits.
RECURSIVE crc16Shift(_, _)
crc16Shift(crc, n) ==
    IF n = 0 THEN crc
    ELSE CHOOSE r \in {crc16Shift(next, n - 1) :
                          next \in {IF crc >= 32768
                                    THEN Xor16((crc * 2) % 65536, 4129)
                                    ELSE crc * 2}} : TRUE

RECURSIVE crc16From(_, _, _)
crc16From(buf, i, crc) ==
    IF i > Len(buf) THEN crc
    ELSE CHOOSE r \in {crc16From(buf, i + 1, next) :
                          next \in {crc16Shift(Xor16(crc, buf[i] * 256), 8)}} : TRUE

\* uint16_t crc16(const char *buf, int len), initial value 0.
crc16(buf) == crc16From(buf, 1, 0)

\* The first index >= from at which buf holds byte c, Len(buf) + 1 when none:
\* the loops "for (s = 0; s < keylen; s++) if (key[s] == c) break;".
RECURSIVE ScanFor(_, _, _)
ScanFor(buf, c, from) ==
    IF from > Len(buf) THEN Len(buf) + 1
    ELSE IF buf[from] = c THEN from
    ELSE ScanFor(buf, c, from + 1)

\* Mutant: the test "e == s+1" (nothing between the braces) is left out.
clusterKeyHashSlot_NoEmptyCheck(key) ==
    LET s == ScanFor(key, OpenBrace, 1)
        e == ScanFor(key, CloseBrace, s + 1)
    IN  IF s = Len(key) + 1 THEN crc16(key) % 16384
        ELSE IF e = Len(key) + 1 THEN crc16(key) % 16384
        ELSE crc16(SubSeq(key, s + 1, e - 1)) % 16384

\* static unsigned int clusterKeyHashSlot(char *key, int keylen); indices are
\* 1-based here, so s and e are the code's s + 1 and e + 1.
clusterKeyHashSlot(key) ==
    LET s == ScanFor(key, OpenBrace, 1)
        e == ScanFor(key, CloseBrace, s + 1)
    IN  IF s = Len(key) + 1 THEN crc16(key) % 16384
        ELSE IF e = Len(key) + 1 \/ e = s + 1 THEN crc16(key) % 16384
        ELSE crc16(SubSeq(key, s + 1, e - 1)) % 16384

(***************************************************************************)
(* Byte strings: decimal formatting and the bytewise order of a rax.       *)
(***************************************************************************)
\* The decimal digits of n >= 0 as bytes ('0' is 48): what "%" PRId64 prints.
RECURSIVE Digits(_)
Digits(n) ==
    IF n < 10 THEN <<48 + n>>
    ELSE Append(Digits(n \div 10), 48 + (n % 10))

\* a sorts strictly before b in a rax: bytewise, a proper prefix first.
RECURSIVE LexLess(_, _)
LexLess(a, b) ==
    IF b = <<>> THEN FALSE
    ELSE IF a = <<>> THEN TRUE
    ELSE IF a[1] # b[1] THEN a[1] < b[1]
    ELSE LexLess(Tail(a), Tail(b))

\* A rax / list is modelled as a set of <<key, value>> pairs with unique keys.
MapKeys(m) == {p[1] : p \in m}
MapGet(m, k) == (CHOOSE p \in m : p[1] = k)[2]
\* raxInsert: inserts, overwriting the value of an existing key.
MapPut(m, k, v) == {p \in m : p[1] # k} \cup {<<k, v>>}
\* raxRemove.
MapDel(m, k) == {p \in m : p[1] # k}

\* The sequence s without its first occurrence of x (listSearchKey + listDelNode).
RECURSIVE DelFirst(_, _)
DelFirst(s, x) ==
    IF s = <<>> THEN <<>>
    ELSE IF s[1] = x THEN Tail(s)
    ELSE <<s[1]>> \o DelFirst(Tail(s), x)

SeqToSet(s) == {s[i] : i \in 1..Len(s)}

(***************************************************************************)
(* The backend: the Redis cluster the proxy talks to.  Each backend node   *)
(* answers CLUSTER NODES with one record per node it knows; the record of  *)
(* the answering node carries the flag "myself" and its slot specs.        *)
(***************************************************************************)
BackendNames == {"A", "B", "C"}
IpOf == [n \in BackendNames |->
            CASE n = "A" -> "10.0.0.1" [] n = "B" -> "10.0.0.2" [] OTHER -> "10.0.0.3"]
PortOf == [n \in BackendNames |->
            CASE n = "A" -> 7001 [] n = "B" -> 7002 [] OTHER -> 7003]

\* Slot specs, the 9th field onward of a record.
SlotRange(a, b) == [kind |-> "range", a |-> a, b |-> b, peer |-> ""]
SlotSingle(s) == [kind |-> "slot", a |-> s, b |-> s, peer |-> ""]
SlotMigrating(s, dst) == [kind |-> "migrating", a |-> s, b |-> s, peer |-> dst]
SlotImporting(s, src) == [kind |-> "importing", a |-> s, b |-> s, peer |-> src]

Rec(name, flags, master, specs) ==
    [name |-> name, ip |-> IpOf[name], port |-> PortOf[name],
     flags |-> flags, master_id |-> master, specs |-> specs]

\* The configurations the backend goes through.  Slot numbers are those of
\* the keys "a" (15495), "b" (3300) and "foo" (12182) and their neighbours;
\* A and B own interleaved ranges, C replicates A.
\*   1: steady state.
\*   2: slots 3299 and 3300 are being migrated from A to B.
\*   3: the migration is over: B owns 3300.
\*   4: failover window: C was promoted and claims A's slots while A, back
\*      from a partition, still presents itself as their master.
Configs ==
    << << Rec("A", {"master"}, "-", <<SlotRange(3298, 3300), SlotRange(12180, 12183)>>),
          Rec("B", {"master"}, "-", <<SlotRange(3301, 3303), SlotSingle(15495)>>),
          Rec("C", {"slave"}, "A", <<>>) >>,
       << Rec("A", {"master"}, "-", <<SlotRange(3298, 3300), SlotRange(12180, 12183),
                                      SlotMigrating(3299, "B"),
                                      SlotMigrating(3300, "B")>>),
          Rec("B", {"master"}, "-", <<SlotRange(3301, 3303), SlotSingle(15495),
                                      SlotImporting(3299, "A"),
                                      SlotImporting(3300, "A")>>),
          Rec("C", {"slave"}, "A", <<>>) >>,
       << Rec("A", {"master"}, "-", <<SlotRange(3298, 3299), SlotRange(12180, 12183)>>),
          Rec("B", {"master"}, "-", <<SlotRange(3300, 3303), SlotSingle(15495)>>),
          Rec("C", {"slave"}, "A", <<>>) >>,
       << Rec("A", {"master"}, "-", <<SlotRange(3298, 3300), SlotRange(12180, 12183)>>),
          Rec("B", {"master"}, "-", <<SlotRange(3301, 3303), SlotSingle(15495)>>),
          Rec("C", {"master"}, "-", <<SlotRange(3298, 3300), SlotRange(12180, 12183)>>) >> >>

ConfigIds == 1..Len(Configs)

\* The reply of backend node b to CLUSTER NODES under configuration cfg: the
\* records of the configuration, "myself" added to the flags of b's own.
NodesReply(cfg, b) ==
    [i \in 1..Len(Configs[cfg]) |->
        IF Configs[cfg][i].name = b
        THEN [Configs[cfg][i] EXCEPT !.flags = @ \cup {"myself"}]
        ELSE Configs[cfg][i]]

\* The backend node listening at ip:port, "" when there is none.
BackendAt(ip, port) ==
    IF \E b \in BackendNames : IpOf[b] = ip /\ PortOf[b] = port
    THEN CHOOSE b \in BackendNames : IpOf[b] = ip /\ PortOf[b] = port
    ELSE ""

\* A connection to ip:port can be opened (redisConnect without error).
CanConnect(ip, port) ==
    /\ BackendAt(ip, port) # ""
    /\ ~(backend.fault = "down" /\ backend.node = BackendAt(ip, port))

\* The node at ip:port answers CLUSTER NODES with a reply that is no error.
RepliesOk(ip, port) ==
    ~(backend.fault = "error" /\ backend.node = BackendAt(ip, port))


(***************************************************************************)
(* The heaps.  A world w is a record of the four heaps; the operators that *)
(* model the C functions take a world and return the world they leave.     *)
(***************************************************************************)
ClusterIds == 1..MaxClusters
NodeIds == 1..MaxNodes
RequestIds == 1..MaxRequests
ClientIds == {1, 2}

\* The client that owns request r, and the request's id within that client.
ClientOf(r) == IF r <= 2 THEN 1 ELSE 2
ReqIdOf(r) == IF r <= 2 THEN 8 + r ELSE 9

\* A node slot of the heap that holds no node.
NoNode ==
    [alloc |-> FALSE, cluster |-> NULL, ip |-> "", port |-> 0, name |-> "",
     is_replica |-> FALSE, slots |-> <<>>, migrating |-> <<>>, importing |-> <<>>,
     duplicated_from |-> NULL, context |-> FALSE, connected |-> FALSE,
     requests_pending |-> <<>>, requests_to_send |-> <<>>]

NoCluster ==
    [alloc |-> FALSE, thread_id |-> 0, nodes |-> <<>>, slots_map |-> {},
     requests_to_reprocess |-> {}, is_updating |-> FALSE,
     update_required |-> FALSE, broken |-> FALSE,
     duplicated_from |-> NULL, duplicates |-> <<>>]

NoRequest ==
    [alloc |-> FALSE, key |-> <<>>, node |-> NULL, slot |-> -1, written |-> 0,
     need_reprocessing |-> FALSE, has_write_handler |-> FALSE]

World == [clusters |-> clusters, nodes |-> nodes, requests |-> requests,
          clients |-> clients]

\* createClusterNode: the node's name is NULL ("" here), its arrays are empty,
\* its connection is fresh: no context, empty queues.
createClusterNode(w, id, ip, port, c) ==
    [w EXCEPT !.nodes[id] =
        [NoNode EXCEPT !.alloc = TRUE, !.cluster = c, !.ip = ip, !.port = port]]

\* createCluster: empty node list, slot map and requests_to_reprocess.
createCluster(w, id, thread_id) ==
    [w EXCEPT !.clusters[id] =
        [NoCluster EXCEPT !.alloc = TRUE, !.thread_id = thread_id]]

\* freeRequestList (proxy.c): releases the requests of a queue.
freeRequestList(w, queue) ==
    [w EXCEPT !.requests =
        [r \in RequestIds |-> IF r \in SeqToSet(queue) THEN NoRequest ELSE @[r]]]

\* freeClusterConnection: both queues are released, then the context.
freeClusterConnection(w, n) ==
    freeRequestList(freeRequestList(w, w.nodes[n].requests_pending),
                    w.nodes[n].requests_to_send)

\* freeClusterNode: the node's memory is released; pointers to it dangle.
freeClusterNode(w, n) ==
    IF n = NULL THEN w
    ELSE [freeClusterConnection(w, n) EXCEPT !.nodes[n] = NoNode]

\* freeClusterNodes: every node of the list, in list order.
RECURSIVE freeNodeList(_, _)
freeNodeList(w, list) ==
    IF list = <<>> THEN w
    ELSE freeNodeList(freeClusterNode(w, list[1]), Tail(list))

freeClusterNodes(w, c) == freeNodeList(w, w.clusters[c].nodes)

\* Mutant: the reset also empties the rax of the parked requests.
resetCluster_DropsParked(w, c) ==
    [freeClusterNodes(w, c) EXCEPT !.clusters[c].slots_map = {},
                                   !.clusters[c].nodes = <<>>,
                                   !.clusters[c].requests_to_reprocess = {}]

\* resetCluster: the slot map and the nodes are freed and created anew, empty;
\* nothing else of the cluster is touched.
resetCluster(w, c) ==
    [freeClusterNodes(w, c) EXCEPT !.clusters[c].slots_map = {},
                                   !.clusters[c].nodes = <<>>]

\* mapSlot: raxInsert of the slot (as a big-endian key) with the node.
mapSlot(map, slot, node) == MapPut(map, slot, node)

\* The smallest entry of the slot map with key >= slot (raxSeek ">=" and
\* raxNext), NULL when there is none.  Big-endian keys of equal length sort
\* as the numbers do.
SeekGE(map, slot) ==
    LET ge == {p \in map : p[1] >= slot}
    IN  IF ge = {} THEN NULL
        ELSE (CHOOSE p \in ge : \A q \in ge : p[1] <= q[1])[2]

\* Mutant: an exact lookup instead of the seek.
searchNodeBySlot_Exact(w, c, slot) ==
    IF slot \in MapKeys(w.clusters[c].slots_map)
    THEN MapGet(w.clusters[c].slots_map, slot) ELSE NULL

\* clusterNode *searchNodeBySlot(redisCluster *cluster, int slot).
searchNodeBySlot(w, c, slot) == SeekGE(w.clusters[c].slots_map, slot)

\* Mutant: the slot is written to *getslot also when no node is found.
NodeAndSlot_AlwaysWrites(node, slot, prior) == [node |-> node, slot |-> slot]

\* "if (node && getslot != NULL) *getslot = slot; return node;": the node, and
\* what *getslot holds afterwards (prior is what it held before the call).
NodeAndSlot(node, slot, prior) ==
    [node |-> node, slot |-> IF node # NULL THEN slot ELSE prior]

\* clusterNode *getNodeByKey(cluster, key, keylen, getslot).
getNodeByKey(w, c, key, prior) ==
    NodeAndSlot(searchNodeBySlot(w, c, clusterKeyHashSlot(key)),
                clusterKeyHashSlot(key), prior)

\* getFirstMappedNode: the value of the first entry of the slot map.
getFirstMappedNode(w, c) == SeekGE(w.clusters[c].slots_map, 0)


(***************************************************************************)
(* Topology loader and discoverer.                                         *)
(***************************************************************************)
\* The node identifiers some pointer of the world refers to.
NodeRefs(w) ==
    UNION {SeqToSet(w.clusters[c].nodes) \cup {p[2] : p \in w.clusters[c].slots_map}
           : c \in {x \in ClusterIds : w.clusters[x].alloc}}
    \cup {w.nodes[n].duplicated_from : n \in {x \in NodeIds : w.nodes[x].alloc}}
    \cup {w.requests[r].node : r \in {x \in RequestIds : w.requests[x].alloc}}

\* The identifiers an allocation may return: not in use and named by no
\* pointer, so that a dangling pointer never comes to name a new node.
FreeNodeIds(w) == {i \in NodeIds : ~w.nodes[i].alloc /\ i \notin NodeRefs(w)}

AllocNodeId(w) == CHOOSE i \in FreeNodeIds(w) : \A j \in FreeNodeIds(w) : i <= j

\* The slots a-b in increasing order: the loop "while (start <= stop)".
SlotsOfRange(a, b) == [i \in 1..(IF b >= a THEN b - a + 1 ELSE 0) |-> a + i - 1]

\* Mutant: of a range only the start is inserted into the slot map.
LoadSlotSpec_NoStop(st, n, spec) ==
    CASE spec.kind = "range" ->
            [st EXCEPT !.map = mapSlot(@, spec.a, n),
                       !.slots = @ \o SlotsOfRange(spec.a, spec.b)]
      [] spec.kind = "slot" ->
            [st EXCEPT !.map = mapSlot(@, spec.a, n), !.slots = Append(@, spec.a)]
      [] OTHER -> st

\* Mutant: a slot that is being migrated or imported is also recorded as
\* owned.
LoadSlotSpec_MigrationOwned(st, n, spec) ==
    CASE spec.kind = "migrating" ->
            [st EXCEPT !.migrating = @ \o <<ToString(spec.a), spec.peer>>,
                       !.slots = Append(@, spec.a)]
      [] spec.kind = "importing" ->
            [st EXCEPT !.importing = @ \o <<ToString(spec.a), spec.peer>>,
                       !.map = mapSlot(@, spec.a, n)]
      [] spec.kind = "range" ->
            [st EXCEPT !.map = mapSlot(mapSlot(@, spec.a, n), spec.b, n),
                       !.slots = @ \o SlotsOfRange(spec.a, spec.b)]
      [] OTHER ->
            [st EXCEPT !.slots = Append(@, spec.a),
                       !.map = mapSlot(@, spec.a, n)]

\* One slot spec of the "myself" record, applied to the slot map and to the
\* node's arrays (st is a record of the four).
LoadSlotSpec(st, n, spec) ==
    CASE spec.kind = "migrating" ->
            [st EXCEPT !.migrating = @ \o <<ToString(spec.a), spec.peer>>]
      [] spec.kind = "importing" ->
            [st EXCEPT !.importing = @ \o <<ToString(spec.a), spec.peer>>]
      [] spec.kind = "range" ->
            [st EXCEPT !.map = mapSlot(mapSlot(@, spec.a, n), spec.b, n),
                       !.slots = @ \o SlotsOfRange(spec.a, spec.b)]
      [] OTHER ->
            [st EXCEPT !.slots = Append(@, spec.a),
                       !.map = mapSlot(@, spec.a, n)]

RECURSIVE LoadSlotSpecs(_, _, _)
LoadSlotSpecs(st, n, specs) ==
    IF specs = <<>> THEN st
    ELSE LoadSlotSpecs(LoadSlotSpec(st, n, specs[1]), n, Tail(specs))

\* The "myself" record: the node takes the name (when it has none), the role
\* and what the slot specs gave (st).
LoadMyself(lw, c, n, rec, st) ==
    [lw EXCEPT
        !.w.nodes[n].name = IF @ = "" THEN rec.name ELSE @,
        !.w.nodes[n].is_replica = ("slave" \in rec.flags \/ rec.master_id # "-"),
        !.w.nodes[n].slots = st.slots,
        !.w.nodes[n].migrating = st.migrating,
        !.w.nodes[n].importing = st.importing,
        !.w.clusters[c].slots_map = st.map]

\* Another node's record: a friend is created (node id) and listed.
LoadFriendRecord(lw, c, rec, id) ==
    [w |-> createClusterNode(lw.w, id, rec.ip, rec.port, c),
     friends |-> Append(lw.friends, id)]

\* One record of the reply.  lw is [w, friends]: the world and the friends
\* list (a NULL list is withFriends = FALSE).
LoadRecord(lw, c, n, withFriends, rec) ==
    IF "myself" \in rec.flags
    THEN LoadMyself(lw, c, n, rec,
                    LoadSlotSpecs([map |-> lw.w.clusters[c].slots_map,
                                   slots |-> lw.w.nodes[n].slots,
                                   migrating |-> lw.w.nodes[n].migrating,
                                   importing |-> lw.w.nodes[n].importing],
                                  n, rec.specs))
    ELSE IF ~withFriends THEN lw
    ELSE LoadFriendRecord(lw, c, rec, AllocNodeId(lw.w))

RECURSIVE LoadRecords(_, _, _, _, _)
LoadRecords(lw, c, n, withFriends, recs) ==
    IF recs = <<>> THEN lw
    ELSE LoadRecords(LoadRecord(lw, c, n, withFriends, recs[1]),
                     c, n, withFriends, Tail(recs))

LoadResult(w, friends, ok) == [w |-> w, friends |-> friends, ok |-> ok]

\* The reply is there: its records are parsed one after the other.
LoadReply(w, c, n, withFriends, reply) ==
    [LoadRecords([w |-> w, friends |-> <<>>], c, n, withFriends, reply)
        EXCEPT !.w = @] @@ [ok |-> TRUE]

\* clusterNodeLoadInfo(cluster, node, friends, ctx).  hasCtx: the caller passed
\* an open context.  Returns [w, friends, ok].
clusterNodeLoadInfo(w, c, n, withFriends, hasCtx) ==
    IF ~hasCtx /\ ~CanConnect(w.nodes[n].ip, w.nodes[n].port)
    THEN LoadResult(w, <<>>, FALSE)
    ELSE IF ~RepliesOk(w.nodes[n].ip, w.nodes[n].port)
    THEN LoadResult([w EXCEPT !.nodes[n].context = TRUE,
                              !.nodes[n].connected = TRUE], <<>>, FALSE)
    ELSE LoadReply([w EXCEPT !.nodes[n].context = TRUE,
                             !.nodes[n].connected = TRUE], c, n, withFriends,
                   NodesReply(backend.cfg,
                              BackendAt(w.nodes[n].ip, w.nodes[n].port)))

\* The loop of fetchClusterConfiguration over the friends.  Returns
\* [w, ok, leaked]: leaked are the friends that are neither freed nor in the
\* node list when the function returns (listRelease frees only the list).
RECURSIVE LoadFriends(_, _, _)
RECURSIVE FriendLoaded(_, _, _)
FriendLoaded(r, c, friends) ==
    IF ~r.ok
    THEN [w |-> freeClusterNode(r.w, friends[1]), ok |-> FALSE,
          leaked |-> Tail(friends)]
    ELSE LoadFriends([r.w EXCEPT !.clusters[c].nodes = Append(@, friends[1])],
                     c, Tail(friends))

\* Mutant: a friend is loaded with a friends list of its own.
LoadFriends_Reexpands(w, c, friends) ==
    IF friends = <<>> THEN [w |-> w, ok |-> TRUE, leaked |-> <<>>]
    ELSE FriendLoaded(clusterNodeLoadInfo(w, c, friends[1], TRUE, FALSE), c, friends)

LoadFriends(w, c, friends) ==
    IF friends = <<>> THEN [w |-> w, ok |-> TRUE, leaked |-> <<>>]
    ELSE FriendLoaded(clusterNodeLoadInfo(w, c, friends[1], FALSE, FALSE), c, friends)

\* Memory that nothing refers to any more plays no further part: the leaked
\* nodes leave the heap of the model; the result of the call counts them.
RECURSIVE DropLeaked(_, _)
DropLeaked(w, leaked) ==
    IF leaked = <<>> THEN w
    ELSE DropLeaked([w EXCEPT !.nodes[leaked[1]] = NoNode], Tail(leaked))

FetchResult(f) ==
    [w |-> DropLeaked(f.w, f.leaked), ok |-> f.ok, leaked |-> Len(f.leaked)]

\* After the load of the first node (r is its result): the friends.
FirstNodeLoaded(r, c) ==
    IF ~r.ok THEN [w |-> r.w, ok |-> FALSE, leaked |-> 0]
    ELSE FetchResult(LoadFriends(r.w, c, r.friends))

\* The first node is created (node id) and appended to the node list.
FetchFirstNode(w, c, ip, port, id) ==
    FirstNodeLoaded(
        clusterNodeLoadInfo([createClusterNode(w, id, ip, port, c)
                                EXCEPT !.clusters[c].nodes = Append(@, id)],
                            c, id, TRUE, TRUE), c)

\* Mutant: the first node is created and listed before the connection to the
\* seed is opened.
fetchClusterConfiguration_NodeFirst(w, c, ip, port) ==
    IF ~CanConnect(ip, port)
    THEN [w |-> [createClusterNode(w, AllocNodeId(w), ip, port, c)
                    EXCEPT !.clusters[c].nodes = Append(@, AllocNodeId(w))],
          ok |-> FALSE, leaked |-> 0]
    ELSE FetchFirstNode(w, c, ip, port, AllocNodeId(w))

\* int fetchClusterConfiguration(cluster, ip, port, hostsocket) with
\* hostsocket = NULL.  Returns [w, ok, leaked].
fetchClusterConfiguration(w, c, ip, port) ==
    IF ~CanConnect(ip, port) THEN [w |-> w, ok |-> FALSE, leaked |-> 0]
    ELSE FetchFirstNode(w, c, ip, port, AllocNodeId(w))

(***************************************************************************)
(* Parked requests.                                                        *)
(***************************************************************************)
\* The rax key of a request: sdscatprintf("%" PRId64 ":%" PRId64, client id, id).
ReprocessKey(r) == Digits(ClientOf(r)) \o <<58>> \o Digits(ReqIdOf(r))

\* void clusterAddRequestToReprocess(redisCluster *cluster, void *r).
clusterAddRequestToReprocess(w, c, r) ==
    [w EXCEPT !.requests[r].need_reprocessing = TRUE,
              !.requests[r].node = NULL,
              !.requests[r].slot = -1,
              !.requests[r].written = 0,
              !.clusters[c].requests_to_reprocess = MapPut(@, ReprocessKey(r), r),
              !.clients[ClientOf(r)].requests_to_reprocess = Append(@, r)]

\* Mutant: the removal leaves need_reprocessing as it is.
clusterRemoveRequestToReprocess_KeepsFlag(w, c, r) ==
    [w EXCEPT !.clusters[c].requests_to_reprocess = MapDel(@, ReprocessKey(r))]

\* void clusterRemoveRequestToReprocess(redisCluster *cluster, void *r).
clusterRemoveRequestToReprocess(w, c, r) ==
    [w EXCEPT !.requests[r].need_reprocessing = FALSE,
              !.clusters[c].requests_to_reprocess = MapDel(@, ReprocessKey(r))]

\* The request is queued on the node found for its key (g); with no node it
\* is answered with an error and released.
SendToNode(w, r, g) ==
    IF g.node = NULL THEN [w EXCEPT !.requests[r] = NoRequest]
    ELSE [w EXCEPT !.requests[r].node = g.node,
                   !.requests[r].slot = g.slot,
                   !.nodes[g.node].requests_to_send = Append(@, r)]

\* processRequest(req, NULL) (proxy.c): the request is routed by its key and
\* queued on the node that owns the slot.
processRequest(w, c, r) ==
    SendToNode(w, r, getNodeByKey(w, c, w.requests[r].key, -1))

(***************************************************************************)
(* updateCluster.                                                          *)
(***************************************************************************)
\* Mutant: the requests awaiting a reply are not counted.
QueueWaitCount_NoPending(w, n) ==
    Cardinality({i \in 1..Len(w.nodes[n].requests_to_send) :
                    w.requests[w.nodes[n].requests_to_send[i]].has_write_handler})

\* What one node adds to requests_to_wait: its requests_pending and those of
\* its requests_to_send that are being written.
QueueWaitCount(w, n) ==
    Len(w.nodes[n].requests_pending)
    + Cardinality({i \in 1..Len(w.nodes[n].requests_to_send) :
                    w.requests[w.nodes[n].requests_to_send[i]].has_write_handler})

\* Mutant: a parked request is left in the queue.
RECURSIVE ParkQueue_NoDelete(_, _, _, _)
ParkQueue_NoDelete(w, c, n, queue) ==
    IF queue = <<>> THEN w
    ELSE IF w.requests[queue[1]].has_write_handler
         THEN ParkQueue_NoDelete(w, c, n, Tail(queue))
         ELSE ParkQueue_NoDelete(clusterAddRequestToReprocess(w, c, queue[1]),
                                 c, n, Tail(queue))

\* The walk over one requests_to_send queue: a request that is not being
\* written is parked and deleted from the queue.
RECURSIVE ParkQueue(_, _, _, _)
ParkQueue(w, c, n, queue) ==
    IF queue = <<>> THEN w
    ELSE IF w.requests[queue[1]].has_write_handler
         THEN ParkQueue(w, c, n, Tail(queue))
         ELSE ParkQueue([clusterAddRequestToReprocess(w, c, queue[1])
                            EXCEPT !.nodes[n].requests_to_send = DelFirst(@, queue[1])],
                        c, n, Tail(queue))

\* Mutant: the replicas are not skipped.
RECURSIVE CountAndPark_WithReplicas(_, _, _, _)
CountAndPark_WithReplicas(w, c, list, wait) ==
    IF list = <<>> THEN [w |-> w, wait |-> wait]
    ELSE CountAndPark_WithReplicas(
            ParkQueue(w, c, list[1], w.nodes[list[1]].requests_to_send),
            c, Tail(list), wait + QueueWaitCount(w, list[1]))

\* The first loop of updateCluster over the node list; replicas are skipped.
\* Returns [w, wait].
RECURSIVE CountAndPark(_, _, _, _)
CountAndPark(w, c, list, wait) ==
    IF list = <<>> THEN [w |-> w, wait |-> wait]
    ELSE IF w.nodes[list[1]].is_replica
         THEN CountAndPark(w, c, Tail(list), wait)
         ELSE CountAndPark(ParkQueue(w, c, list[1], w.nodes[list[1]].requests_to_send),
                           c, Tail(list), wait + QueueWaitCount(w, list[1]))

\* The keys of the rax after prev (all of them when there is no prev yet), and
\* the first of them in the order of the rax.
KeysAfter(map, hasPrev, prev) ==
    {k \in MapKeys(map) : ~hasPrev \/ LexLess(prev, k)}

FirstKey(keys) == CHOOSE k \in keys : \A j \in keys : j = k \/ LexLess(k, j)

\* What processRequest is handed: the request and its fields at that moment.
Handed(w, r) ==
    [req |-> r, need_reprocessing |-> w.requests[r].need_reprocessing,
     written |-> w.requests[r].written, slot |-> w.requests[r].slot,
     node |-> w.requests[r].node]

\* The request is handed to processRequest; what it is handed is recorded.
HandOver(w, c, r) == [w |-> processRequest(w, c, r), handed |-> Handed(w, r)]

\* Mutant: the request is not removed from the rax before it is processed.
ReplayOne_NoRemove(w, c, key, r) ==
    HandOver([w EXCEPT
                !.requests[r].need_reprocessing = FALSE,
                !.clients[ClientOf(r)].requests_to_reprocess = DelFirst(@, r)],
             c, r)

\* The body of the replay loop for the entry at key, whose data is r: the
\* flag is cleared, the entry is removed from the rax and the request from
\* its client's list, and the request is processed.  Returns [w, handed].
ReplayOne(w, c, key, r) ==
    HandOver([w EXCEPT
                !.requests[r].need_reprocessing = FALSE,
                !.clusters[c].requests_to_reprocess = MapDel(@, key),
                !.clients[ClientOf(r)].requests_to_reprocess = DelFirst(@, r)],
             c, r)

\* The replay loop: raxSeek "^", then raxNext; after each removal the
\* iterator is re-seeked to the first key > the removed one.  keys are the
\* keys the iterator has still to visit.
RECURSIVE Replay(_, _, _, _)
RECURSIVE ReplayNext(_, _, _, _)
ReplayNext(one, c, key, replayed) ==
    Replay(one.w, c, KeysAfter(one.w.clusters[c].requests_to_reprocess, TRUE, key),
           Append(replayed, one.handed))

Replay(w, c, keys, replayed) ==
    IF keys = {} THEN [w |-> w, replayed |-> replayed]
    ELSE ReplayNext(ReplayOne(w, c, FirstKey(keys),
                              MapGet(w.clusters[c].requests_to_reprocess, FirstKey(keys))),
                    c, FirstKey(keys), replayed)

\* Mutant: a broken cluster is reconfigured like any other.
UpdateShortCircuits_Never(w, c) == FALSE

\* "if (cluster->broken) return CLUSTER_RECONFIG_ERR;"
UpdateShortCircuits(w, c) == w.clusters[c].broken

\* Mutant: the address is that of the first node that is not a replica.
SeedOf_FirstMaster(w, c) ==
    IF \A i \in 1..Len(w.clusters[c].nodes) : w.nodes[w.clusters[c].nodes[i]].is_replica
    THEN [ip |-> "", port |-> 0]
    ELSE [ip |-> w.nodes[w.clusters[c].nodes[
                    CHOOSE i \in 1..Len(w.clusters[c].nodes) :
                        /\ ~w.nodes[w.clusters[c].nodes[i]].is_replica
                        /\ \A j \in 1..(i - 1) :
                              w.nodes[w.clusters[c].nodes[j]].is_replica]].ip,
          port |-> w.nodes[w.clusters[c].nodes[
                    CHOOSE i \in 1..Len(w.clusters[c].nodes) :
                        /\ ~w.nodes[w.clusters[c].nodes[i]].is_replica
                        /\ \A j \in 1..(i - 1) :
                              w.nodes[w.clusters[c].nodes[j]].is_replica]].port]

\* The address updateCluster re-discovers from: that of the first node of the
\* list; NULL and 0 when the list is empty.
SeedOf(w, c) ==
    IF w.clusters[c].nodes = <<>> THEN [ip |-> "", port |-> 0]
    ELSE [ip |-> w.nodes[w.clusters[c].nodes[1]].ip,
          port |-> w.nodes[w.clusters[c].nodes[1]].port]

UpdateResult(w, status, replayed, leaked) ==
    [w |-> w, status |-> status, replayed |-> replayed, leaked |-> leaked]

\* The final part of updateCluster: rp is what the replay loop left.
UpdateReplayed(rp, leaked) == UpdateResult(rp.w, "ENDED", rp.replayed, leaked)

\* Mutant: is_updating is not cleared before the replay.
UpdateFetched_KeepsUpdating(f, c) ==
    IF ~f.ok
    THEN UpdateResult([f.w EXCEPT !.clusters[c].broken = TRUE], "ERR", <<>>, f.leaked)
    ELSE UpdateReplayed(
            Replay([f.w EXCEPT !.clusters[c].update_required = FALSE],
                   c, MapKeys(f.w.clusters[c].requests_to_reprocess), <<>>),
            f.leaked)

\* After fetchClusterConfiguration (f is its result): on a failure the cluster
\* is broken; else the flags are cleared and the parked requests replayed.
UpdateFetched(f, c) ==
    IF ~f.ok
    THEN UpdateResult([f.w EXCEPT !.clusters[c].broken = TRUE], "ERR", <<>>, f.leaked)
    ELSE UpdateReplayed(
            Replay([f.w EXCEPT !.clusters[c].is_updating = FALSE,
                               !.clusters[c].update_required = FALSE],
                   c, MapKeys(f.w.clusters[c].requests_to_reprocess), <<>>),
            f.leaked)

\* Mutant: a call that has to wait forgets that an update was asked for.
UpdateParked_ClearsRequired(p, c, seed) ==
    IF p.wait > 0
    THEN UpdateResult([p.w EXCEPT !.clusters[c].is_updating = TRUE,
                                  !.clusters[c].update_required = FALSE],
                      "WAIT", <<>>, 0)
    ELSE UpdateFetched(
            fetchClusterConfiguration(
                resetCluster([p.w EXCEPT !.clusters[c].is_updating = TRUE], c),
                c, seed.ip, seed.port), c)

\* Mutant: the call waits even when there is nothing to wait for.
UpdateParked_AlwaysWaits(p, c, seed) ==
    IF p.wait >= 0
    THEN UpdateResult([p.w EXCEPT !.clusters[c].is_updating = TRUE], "WAIT", <<>>, 0)
    ELSE UpdateFetched(
            fetchClusterConfiguration(
                resetCluster([p.w EXCEPT !.clusters[c].is_updating = TRUE], c),
                c, seed.ip, seed.port), c)

\* After the first loop (p is [w, wait]): is_updating is set; with requests
\* to wait for the function returns, else the cluster is reset and the
\* topology fetched from the seed.
UpdateParked(p, c, seed) ==
    IF p.wait > 0
    THEN UpdateResult([p.w EXCEPT !.clusters[c].is_updating = TRUE], "WAIT", <<>>, 0)
    ELSE UpdateFetched(
            fetchClusterConfiguration(
                resetCluster([p.w EXCEPT !.clusters[c].is_updating = TRUE], c),
                c, seed.ip, seed.port), c)

\* The requests that wait, not being written, in the requests_to_send queue
\* of a node of c that is not a replica: those that the first loop of
\* updateCluster meets in its else branch.
Parkable(w, c) ==
    {r \in RequestIds :
        \E n \in SeqToSet(w.clusters[c].nodes) :
            /\ ~w.nodes[n].is_replica
            /\ r \in SeqToSet(w.nodes[n].requests_to_send)
            /\ ~w.requests[r].has_write_handler}

\* The requests in the queues of the replicas of c.
OnReplicas(w, c) ==
    {r \in RequestIds :
        \E n \in SeqToSet(w.clusters[c].nodes) :
            /\ w.nodes[n].is_replica
            /\ r \in SeqToSet(w.nodes[n].requests_to_send)
                      \cup SeqToSet(w.nodes[n].requests_pending)}

\* int updateCluster(redisCluster *cluster).  Returns [w, status, replayed,
\* leaked].
updateCluster(w, c) ==
    IF UpdateShortCircuits(w, c) THEN UpdateResult(w, "ERR", <<>>, 0)
    ELSE UpdateParked(CountAndPark(w, c, w.clusters[c].nodes, 0), c, SeedOf(w, c))

(***************************************************************************)
(* Duplication and destruction of a topology.                              *)
(***************************************************************************)
\* The cluster identifiers some pointer of the world refers to.
ClusterRefs(w) ==
    UNION {{w.clusters[c].duplicated_from} \cup SeqToSet(w.clusters[c].duplicates)
           : c \in {x \in ClusterIds : w.clusters[x].alloc}}
    \cup {w.nodes[n].cluster : n \in {x \in NodeIds : w.nodes[x].alloc}}

FreeClusterIds(w) == {i \in ClusterIds : ~w.clusters[i].alloc /\ i \notin ClusterRefs(w)}

AllocClusterId(w) == CHOOSE i \in FreeClusterIds(w) : \A j \in FreeClusterIds(w) : i <= j

\* clusterNode *duplicateClusterNode(clusterNode *source, redisCluster *c): a
\* node created for the source's address, with copies of the source's name,
\* role and arrays, and a fresh connection.
duplicateClusterNode(w, id, source, c) ==
    [createClusterNode(w, id, w.nodes[source].ip, w.nodes[source].port, c)
        EXCEPT !.nodes[id].duplicated_from = source,
               !.nodes[id].name = w.nodes[source].name,
               !.nodes[id].is_replica = w.nodes[source].is_replica,
               !.nodes[id].slots = w.nodes[source].slots,
               !.nodes[id].migrating = w.nodes[source].migrating,
               !.nodes[id].importing = w.nodes[source].importing]

\* The first part of freeCluster: the slot map, the nodes and the rax of the
\* parked requests are freed.
\* They are, one by one and each applied to what the one before it left:
\* raxFree(slots_map); freeClusterNodes; raxFree(requests_to_reprocess).
FreedMap(w, c) == [w EXCEPT !.clusters[c].slots_map = {}]

FreedNodes(w, c) ==
    [freeClusterNodes(FreedMap(w, c), c) EXCEPT !.clusters[c].nodes = <<>>]

FreedParked(w, c) ==
    [FreedNodes(w, c) EXCEPT !.clusters[c].requests_to_reprocess = {}]

FreeContents(w, c) == FreedParked(w, c)

\* The loop of freeCluster over the duplicates: duplicated_from is set to NULL
\* in each duplicate and in each of its nodes.
RECURSIVE NullBackLinks(_, _)
NullBackLinks(w, dups) ==
    IF dups = <<>> THEN w
    ELSE NullBackLinks(
            [w EXCEPT !.clusters[dups[1]].duplicated_from = NULL,
                      !.nodes = [n \in NodeIds |->
                                    IF n \in SeqToSet(w.clusters[dups[1]].nodes)
                                    THEN [@[n] EXCEPT !.duplicated_from = NULL]
                                    ELSE @[n]]],
            Tail(dups))

\* The cluster is deleted from the duplicates list of the cluster it was
\* duplicated from, if any.
UnlinkFromParent(w, c) ==
    IF w.clusters[c].duplicated_from = NULL THEN w
    ELSE [w EXCEPT !.clusters[w.clusters[c].duplicated_from].duplicates = DelFirst(@, c)]

\* Mutant: a freed duplicate stays in the duplicates list of its source.
freeCluster_NoUnlink(w, c) ==
    [NullBackLinks(FreeContents(w, c), w.clusters[c].duplicates)
        EXCEPT !.clusters[c] = NoCluster]

\* void freeCluster(redisCluster *cluster).
freeCluster(w, c) ==
    [UnlinkFromParent(NullBackLinks(FreeContents(w, c), w.clusters[c].duplicates), c)
        EXCEPT !.clusters[c] = NoCluster]

\* The first loop of duplicateCluster, over the source's node list.  st is
\* [w, byname, ok]: the world, the rax nodes_by_name and "success".  A copy
\* without a name is freed and ends the loop.
RECURSIVE DuplicateNodes(_, _, _)
RECURSIVE NodeDuplicated(_, _, _, _)
NodeDuplicated(st, id, c, list) ==
    IF st.w.nodes[id].name = ""
    THEN [w |-> freeClusterNode(st.w, id), byname |-> st.byname, ok |-> FALSE]
    ELSE DuplicateNodes(
            [w |-> [st.w EXCEPT !.clusters[c].nodes = Append(@, id)],
             byname |-> MapPut(st.byname, st.w.nodes[id].name, id),
             ok |-> TRUE],
            c, Tail(list))

DuplicateNodes(st, c, list) ==
    IF list = <<>> THEN st
    ELSE NodeDuplicated(
            [st EXCEPT !.w = duplicateClusterNode(@, AllocNodeId(@), list[1], c)],
            AllocNodeId(st.w), c, list)

\* Mutant: the entries of the copy's slot map hold the source's nodes.
DuplicateSlots_SourceNodes(w, source, c, byname) ==
    IF \A p \in w.clusters[source].slots_map : w.nodes[p[2]].name \in MapKeys(byname)
    THEN [w |-> [w EXCEPT !.clusters[c].slots_map = w.clusters[source].slots_map],
          ok |-> TRUE]
    ELSE [w |-> w, ok |-> FALSE]

\* The second loop of duplicateCluster, over the source's slot map: each entry
\* is inserted with the copy that bears the name of the entry's node; an
\* entry whose node has no copy of that name ends the loop without success.
DuplicateSlots(w, source, c, byname) ==
    IF \A p \in w.clusters[source].slots_map : w.nodes[p[2]].name \in MapKeys(byname)
    THEN [w |-> [w EXCEPT !.clusters[c].slots_map =
                    {<<p[1], MapGet(byname, w.nodes[p[2]].name)>>
                        : p \in w.clusters[source].slots_map}],
          ok |-> TRUE]
    ELSE [w |-> w, ok |-> FALSE]

DupResult(w, cluster, crashed, undefined) ==
    [w |-> w, cluster |-> cluster, crashed |-> crashed, undefined |-> undefined]

\* After the second loop: the copy is registered in the source's duplicates
\* list; without success it is freed.
SlotsDuplicated(s, source, c) ==
    IF ~s.ok THEN DupResult(freeCluster(s.w, c), NULL, FALSE, FALSE)
    ELSE DupResult([s.w EXCEPT !.clusters[source].duplicates = Append(@, c)],
                   c, FALSE, FALSE)

\* After the first loop.  Leaving it by "goto cleanup" reaches raxStop(&iter)
\* with an iterator that raxStart has not initialised: the call frees what
\* the stack memory happens to hold.  ub is the outcome: the process goes on
\* ("continue") or is killed ("crash").
NodesDuplicated(st, source, c, ub) ==
    IF ~st.ok
    THEN IF ub = "crash" THEN DupResult(st.w, NULL, TRUE, TRUE)
         ELSE DupResult(freeCluster(st.w, c), NULL, FALSE, TRUE)
    ELSE SlotsDuplicated(DuplicateSlots(st.w, source, c, st.byname), source, c)

\* The copy is created (cluster id c) with duplicated_from set.
DuplicateInto(w, source, c, ub) ==
    NodesDuplicated(
        DuplicateNodes(
            [w |-> [createCluster(w, c, w.clusters[source].thread_id)
                        EXCEPT !.clusters[c].duplicated_from = source],
             byname |-> {}, ok |-> TRUE],
            c, w.clusters[source].nodes),
        source, c, ub)

\* redisCluster *duplicateCluster(redisCluster *source).  Returns [w, cluster,
\* crashed, undefined].
duplicateCluster(w, source, ub) == DuplicateInto(w, source, AllocClusterId(w), ub)

(***************************************************************************)
(* The state machine.                                                      *)
(***************************************************************************)
Call(op, c, status) ==
    [op |-> op, c |-> c, status |-> status, replayed |-> <<>>, req |-> NULL,
     node |-> NULL, slot |-> -1, key |-> <<>>, leaked |-> 0,
     dup |-> NULL, dups |-> <<>>, parent |-> NULL, prev |-> <<>>, seed |-> "",
     parked |-> {}, was_updating |-> FALSE, on_replicas |-> {}]

\* The process has not been killed.
Running == last.status # "CRASH"

\* The key of the command request r carries: "a", "b", "{b}x".
KeyOf(r) == CASE r = 1 -> <<97>> [] r = 2 -> <<98>> [] OTHER -> <<123, 98, 125, 120>>

LiveClusters == {c \in ClusterIds : clusters[c].alloc}
LiveNodes == {n \in NodeIds : nodes[n].alloc}
LiveRequests == {r \in RequestIds : requests[r].alloc}

\* An allocation of one node per record of a reply finds room in the heap.
HasRoom(w) == Cardinality(FreeNodeIds(w)) >= Len(Configs[backend.cfg])

SetWorld(w) ==
    /\ clusters' = w.clusters
    /\ nodes' = w.nodes
    /\ requests' = w.requests
    /\ clients' = w.clients

InitWorld ==
    /\ clusters = [c \in ClusterIds |->
                     IF c = 1 THEN [NoCluster EXCEPT !.alloc = TRUE, !.thread_id = 1]
                     ELSE NoCluster]
    /\ nodes = [n \in NodeIds |-> NoNode]
    /\ requests = [r \in RequestIds |-> NoRequest]
    /\ clients = [k \in ClientIds |-> [requests_to_reprocess |-> <<>>]]
    /\ backend = [cfg |-> 1, fault |-> "none", node |-> ""]
    /\ last = Call("none", NULL, "")

Init ==
    /\ InitWorld
    /\ hkey = <<>>
    /\ hslot = -1

\* The proxy loads the topology of a cluster that holds none.
FetchClusterConfiguration(c, b) ==
    /\ Running
    /\ clusters[c].alloc
    /\ clusters[c].nodes = <<>>
    /\ clusters[c].slots_map = {}
    /\ ~clusters[c].broken
    /\ HasRoom(World)
    /\ \E f \in {fetchClusterConfiguration(World, c, IpOf[b], PortOf[b])} :
           /\ SetWorld(f.w)
           /\ last' = [Call("fetchClusterConfiguration", c,
                            IF f.ok THEN "OK" ELSE "FAIL") EXCEPT !.leaked = f.leaked,
                                                                  !.seed = b]
    /\ UNCHANGED <<backend, hkey, hslot>>

\* fetchClusterConfiguration is called on a topology that holds nodes.
RefetchClusterConfiguration(c, b) ==
    /\ Running
    /\ clusters[c].alloc
    /\ clusters[c].nodes # <<>>
    /\ HasRoom(World)
    /\ \E f \in {fetchClusterConfiguration(World, c, IpOf[b], PortOf[b])} :
           /\ SetWorld(f.w)
           /\ last' = [Call("fetchClusterConfiguration", c,
                            IF f.ok THEN "OK" ELSE "FAIL") EXCEPT !.leaked = f.leaked,
                                                                  !.seed = b]
    /\ UNCHANGED <<backend, hkey, hslot>>

UpdateCluster(c) ==
    /\ Running
    /\ clusters[c].alloc
    /\ HasRoom(resetCluster(World, c))
    /\ \E u \in {updateCluster(World, c)} :
           /\ SetWorld(u.w)
           /\ last' = [Call("updateCluster", c, u.status)
                          EXCEPT !.replayed = u.replayed, !.leaked = u.leaked,
                                 !.prev = <<last.op, last.c, last.status>>,
                                 !.parked = IF clusters[c].broken THEN {}
                                            ELSE Parkable(World, c),
                                 !.was_updating = clusters[c].is_updating,
                                 !.on_replicas = OnReplicas(World, c),
                                 !.seed = IF clusters[c].nodes = <<>> THEN ""
                                          ELSE BackendAt(nodes[clusters[c].nodes[1]].ip,
                                                         nodes[clusters[c].nodes[1]].port)]
    /\ UNCHANGED <<backend, hkey, hslot>>

\* A client sends a command: the proxy routes it and queues it on its node.
SubmitRequest(c, r) ==
    /\ clusters[c].alloc
    /\ ~requests[r].alloc
    /\ getNodeByKey(World, c, KeyOf(r), -1).node # NULL
    /\ SetWorld(processRequest(
            [World EXCEPT !.requests[r] = [NoRequest EXCEPT !.alloc = TRUE,
                                                            !.key = KeyOf(r)]], c, r))
    /\ last' = [Call("processRequest", c, "") EXCEPT !.req = r]
    /\ UNCHANGED <<backend, hkey, hslot>>

\* The write handler of a node's connection is installed for the request at
\* the head of requests_to_send.
StartWrite(n) ==
    /\ nodes[n].alloc
    /\ nodes[n].requests_to_send # <<>>
    /\ ~requests[nodes[n].requests_to_send[1]].has_write_handler
    /\ requests' = [requests EXCEPT ![nodes[n].requests_to_send[1]].has_write_handler = TRUE]
    /\ last' = Call("env", NULL, "")
    /\ UNCHANGED <<clusters, nodes, clients, backend, hkey, hslot>>

\* The request being written is written in full: it leaves requests_to_send
\* for the tail of requests_pending.
FinishWrite(n) ==
    /\ nodes[n].alloc
    /\ nodes[n].requests_to_send # <<>>
    /\ requests[nodes[n].requests_to_send[1]].has_write_handler
    /\ LET r == nodes[n].requests_to_send[1]
       IN  /\ requests' = [requests EXCEPT ![r].has_write_handler = FALSE,
                                           ![r].written = 1]
           /\ nodes' = [nodes EXCEPT ![n].requests_to_send = Tail(@),
                                     ![n].requests_pending = Append(@, r)]
    /\ last' = Call("env", NULL, "")
    /\ UNCHANGED <<clusters, clients, backend, hkey, hslot>>

\* The reply to the request at the head of requests_pending arrives and is
\* passed to the client: the request is released.
ReplyArrives(n) ==
    /\ nodes[n].alloc
    /\ nodes[n].requests_pending # <<>>
    /\ requests' = [requests EXCEPT ![nodes[n].requests_pending[1]] = NoRequest]
    /\ nodes' = [nodes EXCEPT ![n].requests_pending = Tail(@)]
    /\ last' = Call("env", NULL, "")
    /\ UNCHANGED <<clusters, clients, backend, hkey, hslot>>

\* The reply is a redirection (MOVED, ASK): the proxy takes the request off
\* requests_pending, parks it and asks for a reconfiguration.
ReplyMoved(n) ==
    /\ nodes[n].alloc
    /\ nodes[n].requests_pending # <<>>
    /\ \E r \in {nodes[n].requests_pending[1]}, c \in {nodes[n].cluster} :
           /\ SetWorld(clusterAddRequestToReprocess(
                    [World EXCEPT !.nodes[n].requests_pending = Tail(@),
                                  !.clusters[c].update_required = TRUE], c, r))
           /\ last' = [Call("clusterAddRequestToReprocess", c, "") EXCEPT !.req = r]
    /\ UNCHANGED <<backend, hkey, hslot>>

\* A command arrives that the proxy parks at once.
ParkRequest(c, r) ==
    /\ clusters[c].alloc
    /\ ~requests[r].alloc
    /\ SetWorld(clusterAddRequestToReprocess(
            [World EXCEPT !.requests[r] = [NoRequest EXCEPT !.alloc = TRUE,
                                                            !.key = KeyOf(r)]], c, r))
    /\ last' = [Call("clusterAddRequestToReprocess", c, "") EXCEPT !.req = r]
    /\ UNCHANGED <<backend, hkey, hslot>>

\* clusterRemoveRequestToReprocess is called on a request, parked or not.
RemoveRequest(c, r) ==
    /\ clusters[c].alloc
    /\ requests[r].alloc
    /\ SetWorld(clusterRemoveRequestToReprocess(World, c, r))
    /\ last' = [Call("clusterRemoveRequestToReprocess", c, "") EXCEPT !.req = r]
    /\ UNCHANGED <<backend, hkey, hslot>>

\* A request that is in no queue and in no rax is released by its owner, who
\* takes it off its client's list.
DropRequest(r) ==
    /\ requests[r].alloc
    /\ \A n \in LiveNodes : r \notin SeqToSet(nodes[n].requests_pending)
                            /\ r \notin SeqToSet(nodes[n].requests_to_send)
    /\ \A c \in LiveClusters : r \notin {p[2] : p \in clusters[c].requests_to_reprocess}
    /\ requests' = [requests EXCEPT ![r] = NoRequest]
    /\ clients' = [clients EXCEPT ![ClientOf(r)].requests_to_reprocess = DelFirst(@, r)]
    /\ last' = Call("env", NULL, "")
    /\ UNCHANGED <<clusters, nodes, backend, hkey, hslot>>

\* Keys looked up: "b", "x" and the tagged "{b}x".
LookupKeys == {<<98>>, <<120>>, <<123, 98, 125, 120>>}

GetNodeByKey(c, key, prior) ==
    /\ clusters[c].alloc
    /\ \E g \in {getNodeByKey(World, c, key, prior)} :
           last' = [Call("getNodeByKey", c, "") EXCEPT !.node = g.node,
                                                       !.slot = g.slot,
                                                       !.key = key]
    /\ UNCHANGED <<clusters, nodes, requests, clients, backend, hkey, hslot>>

\* The backend passes to its next configuration.
BackendReconfigures ==
    /\ backend' = [backend EXCEPT !.cfg = (@ % Len(Configs)) + 1]
    /\ last' = Call("env", NULL, "")
    /\ UNCHANGED <<clusters, nodes, requests, clients, hkey, hslot>>

\* The same while no topology holds nodes: what is loaded later is any of
\* the configurations.
BackendReconfiguresUnseen ==
    /\ \A c \in ClusterIds : clusters[c].nodes = <<>>
    /\ BackendReconfigures

\* Slot 3300 moves from A to B (configuration 1 to 3), or back.
BackendReshards ==
    /\ backend.cfg \in {1, 3}
    /\ backend' = [backend EXCEPT !.cfg = IF @ = 1 THEN 3 ELSE 1]
    /\ last' = Call("env", NULL, "")
    /\ UNCHANGED <<clusters, nodes, requests, clients, hkey, hslot>>

\* A backend node stops accepting connections, or answers with errors, or
\* the fault ends.
BackendFault(kind, b) ==
    /\ Running
    /\ \/ backend.fault = "none" /\ kind # "none" /\ b # ""
       \/ backend.fault # "none" /\ kind = "none" /\ b = ""
    /\ backend' = [backend EXCEPT !.fault = kind, !.node = b]
    /\ last' = Call("env", NULL, "")
    /\ UNCHANGED <<clusters, nodes, requests, clients, hkey, hslot>>

\* A topology is duplicated; ub is the outcome of the undefined behaviour,
\* should the call run into it.
DuplicateCluster(source, ub) ==
    /\ Running
    /\ clusters[source].alloc
    /\ FreeClusterIds(World) # {}
    /\ Cardinality(FreeNodeIds(World)) >= Len(clusters[source].nodes)
    /\ \E d \in {duplicateCluster(World, source, ub)} :
           /\ ub = "crash" => d.undefined
           /\ SetWorld(d.w)
           /\ last' = [Call("duplicateCluster", source,
                            IF d.crashed THEN "CRASH"
                            ELSE IF d.cluster = NULL THEN "FAIL" ELSE "OK")
                          EXCEPT !.dup = d.cluster]
    /\ UNCHANGED <<backend, hkey, hslot>>

\* A topology is destroyed.
FreeCluster(c) ==
    /\ Running
    /\ clusters[c].alloc
    /\ SetWorld(freeCluster(World, c))
    /\ last' = [Call("freeCluster", c, "") EXCEPT !.dups = clusters[c].duplicates,
                                                  !.parent = clusters[c].duplicated_from]
    /\ UNCHANGED <<backend, hkey, hslot>>

\* A topology is reset.
ResetCluster(c) ==
    /\ Running
    /\ clusters[c].alloc
    /\ clusters[c].nodes # <<>>
    /\ SetWorld(resetCluster(World, c))
    /\ last' = Call("resetCluster", c, "OK")
    /\ UNCHANGED <<backend, hkey, hslot>>

\* The proxy with its clients: the requests, their queues, the parking and
\* the reconfiguration, in front of a backend that reshards, whose node A
\* may be down and whose node B may answer with errors.
Next ==
    \/ \E c \in ClusterIds : FetchClusterConfiguration(c, "A")
    \/ \E c \in ClusterIds : UpdateCluster(c)
    \/ \E c \in ClusterIds, r \in RequestIds : SubmitRequest(c, r)
    \/ \E n \in NodeIds : StartWrite(n)
    \/ \E n \in NodeIds : FinishWrite(n)
    \/ \E n \in NodeIds : ReplyArrives(n)
    \/ \E n \in NodeIds : ReplyMoved(n)
    \/ \E c \in ClusterIds, r \in RequestIds : ParkRequest(c, r)
    \/ \E c \in ClusterIds, r \in RequestIds : RemoveRequest(c, r)
    \/ \E r \in RequestIds : DropRequest(r)
    \/ BackendReshards
    \/ \E f \in {<<"none", "">>, <<"down", "A">>, <<"error", "B">>} :
            BackendFault(f[1], f[2])

Spec == Init /\ [][Next]_vars

\* The topology on its own: loads and reconfigurations from either seed, in
\* front of a backend that goes through all its configurations and whose
\* node A may be down or answer with errors, and the routing queries.
NextLoad ==
    \/ \E c \in ClusterIds, b \in {"A", "C"} : FetchClusterConfiguration(c, b)
    \/ \E c \in ClusterIds : UpdateCluster(c)
    \/ \E c \in ClusterIds, key \in LookupKeys : GetNodeByKey(c, key, -1)
    \/ BackendReconfigures
    \/ \E kind \in {"none", "down", "error"}, b \in {"", "A"} : BackendFault(kind, b)

SpecLoad == Init /\ [][NextLoad]_vars

\* The topologies of the worker threads: the first one is loaded from seed A
\* (which may answer with errors); topologies are duplicated and destroyed.
NextDup ==
    \/ FetchClusterConfiguration(1, "A")
    \/ \E c \in ClusterIds, ub \in {"continue", "crash"} : DuplicateCluster(c, ub)
    \/ \E c \in ClusterIds : FreeCluster(c)
    \/ \E kind \in {"none", "error"}, b \in {"", "A"} : BackendFault(kind, b)

SpecDup == Init /\ [][NextDup]_vars

\* The same with resets: a topology may be reset, or reconfigured by
\* updateCluster, while its duplicates live.
NextDupReset ==
    \/ FetchClusterConfiguration(1, "A")
    \/ \E c \in ClusterIds : DuplicateCluster(c, "continue")
    \/ \E c \in ClusterIds : FreeCluster(c)
    \/ \E c \in ClusterIds : ResetCluster(c)
    \/ UpdateCluster(1)

SpecDupReset == Init /\ [][NextDupReset]_vars

\* Duplication of a topology in use: the first topology is loaded from seed
\* A under any configuration of the backend and takes a request; topologies
\* are duplicated and destroyed.
NextCopy ==
    \/ FetchClusterConfiguration(1, "A")
    \/ BackendReconfiguresUnseen
    \/ SubmitRequest(1, 1)
    \/ \E c \in ClusterIds : DuplicateCluster(c, "continue")
    \/ \E c \in ClusterIds : FreeCluster(c)

SpecCopy == Init /\ [][NextCopy]_vars

\* A command is sent to a replica of the topology: it is queued on that
\* node.
SubmitToReplica(c, r) ==
    /\ clusters[c].alloc
    /\ ~requests[r].alloc
    /\ \E n \in SeqToSet(clusters[c].nodes) :
          /\ nodes[n].is_replica
          /\ nodes[n].context
          /\ requests' = [requests EXCEPT ![r] = [NoRequest EXCEPT !.alloc = TRUE,
                                                                  !.key = KeyOf(r),
                                                                  !.node = n]]
          /\ nodes' = [nodes EXCEPT ![n].requests_to_send = Append(@, r)]
    /\ last' = [Call("processRequest", c, "") EXCEPT !.req = r]
    /\ UNCHANGED <<clusters, clients, backend, hkey, hslot>>

\* One topology and its parked requests: commands are queued, written,
\* answered or redirected, parked and taken back, and the topology is
\* reconfigured; node A of the backend may be down.
NextParked ==
    \/ FetchClusterConfiguration(1, "A")
    \/ \E r \in RequestIds : SubmitRequest(1, r)
    \/ \E n \in NodeIds : StartWrite(n)
    \/ \E n \in NodeIds : FinishWrite(n)
    \/ \E n \in NodeIds : ReplyArrives(n)
    \/ \E n \in NodeIds : ReplyMoved(n)
    \/ \E r \in RequestIds : ParkRequest(1, r)
    \/ \E r \in RequestIds : RemoveRequest(1, r)
    \/ \E r \in RequestIds : DropRequest(r)
    \/ UpdateCluster(1)
    \/ \E f \in {<<"none", "">>, <<"down", "A">>} : BackendFault(f[1], f[2])

SpecParked == Init /\ [][NextParked]_vars

\* The reconfiguration of a topology whose replica takes requests too; node
\* A of the backend may be down.
NextReplica ==
    \/ FetchClusterConfiguration(1, "A")
    \/ \E r \in RequestIds : SubmitRequest(1, r)
    \/ \E r \in RequestIds : SubmitToReplica(1, r)
    \/ \E n \in NodeIds : StartWrite(n)
    \/ \E n \in NodeIds : FinishWrite(n)
    \/ \E n \in NodeIds : ReplyArrives(n)
    \/ UpdateCluster(1)
    \/ \E f \in {<<"none", "">>, <<"down", "A">>} : BackendFault(f[1], f[2])

SpecReplica == Init /\ [][NextReplica]_vars

\* A command arrives while the topology is not being updated: it is routed
\* and queued.
SubmitIdle(c, r) ==
    /\ ~clusters[c].is_updating
    /\ SubmitRequest(c, r)

\* A command arrives while the topology is being updated: the proxy parks it.
ParkArrival(c, r) ==
    /\ clusters[c].is_updating
    /\ ParkRequest(c, r)

\* A call of updateCluster is due: an update was asked for or is under way,
\* and something has happened since the last call.  UpdateCluster(c) is then
\* enabled.
CallDue(c) ==
    /\ Running
    /\ clusters[c].alloc
    /\ HasRoom(resetCluster(World, c))
    /\ clusters[c].update_required \/ clusters[c].is_updating
    /\ last.op # "updateCluster"

\* The reply to the request at the head of a node's requests_pending comes
\* back, as a result or as a redirection.
ReplyComes(n) == ReplyArrives(n) \/ ReplyMoved(n)

\* One worker thread at work: its topology is loaded from seed A, commands
\* arrive, are written and answered or redirected, and the caller
\* reconfigures; node A of the backend may be down.  While requests are
\* under way one of them is eventually written in full or answered, and a
\* call that stays due is eventually made (weak fairness of the call, its
\* enabling condition written out as CallDue).
NextLive ==
    \/ FetchClusterConfiguration(1, "A")
    \/ \E r \in RequestIds : SubmitIdle(1, r)
    \/ \E r \in RequestIds : ParkArrival(1, r)
    \/ \E n \in NodeIds : StartWrite(n)
    \/ \E n \in NodeIds : FinishWrite(n)
    \/ \E n \in NodeIds : ReplyComes(n)
    \/ UpdateCluster(1)
    \/ BackendReshards
    \/ \E f \in {<<"none", "">>, <<"down", "A">>} : BackendFault(f[1], f[2])

SpecLive ==
    /\ Init
    /\ [][NextLive]_vars
    /\ WF_vars(\E n \in NodeIds : FinishWrite(n))
    /\ WF_vars(\E n \in NodeIds : ReplyComes(n))
    /\ ([]<>~CallDue(1) \/ []<><<UpdateCluster(1)>>_vars)

\* The discoverer on its own: fetchClusterConfiguration from either seed on
\* a topology that is empty or not and that holds parked requests, in front
\* of a backend that reshards and whose node A may be down.
NextFetch ==
    \/ \E b \in {"A", "C"} : FetchClusterConfiguration(1, b)
    \/ \E b \in {"A", "C"} : RefetchClusterConfiguration(1, b)
    \/ \E r \in RequestIds : ParkRequest(1, r)
    \/ BackendReshards
    \/ \E f \in {<<"none", "">>, <<"down", "A">>} : BackendFault(f[1], f[2])

SpecFetch == Init /\ [][NextFetch]_vars

(***************************************************************************)
(* The hash-slot function on its own: every key over '{', '}' and 'a' of   *)
(* at most MaxKeyLen bytes.                                                *)
(***************************************************************************)
HashKeys == UNION {[1..n -> {OpenBrace, CloseBrace, 97}] : n \in 0..MaxKeyLen}

InitHash ==
    /\ InitWorld
    /\ hkey \in HashKeys
    /\ hslot = -1

HashKey ==
    /\ hslot = -1
    /\ hslot' = clusterKeyHashSlot(hkey)
    /\ UNCHANGED <<clusters, nodes, requests, clients, backend, last, hkey>>

NextHash == HashKey

SpecHash == InitHash /\ [][NextHash]_vars


(***************************************************************************)
(* Properties of the reconfiguration and of the parking (Spec).            *)
(***************************************************************************)
\* The requests a node's connection is writing.
Writing(n) ==
    {r \in SeqToSet(nodes[n].requests_to_send) : requests[r].has_write_handler}

\* Some non-replica node of cluster c has a request awaiting its reply or
\* being written.
HasInFlight(c) ==
    \E n \in SeqToSet(clusters[c].nodes) :
        /\ ~nodes[n].is_replica
        /\ (nodes[n].requests_pending # <<>> \/ Writing(n) # {})

\* C1 (Quiescence): a call of updateCluster on a cluster that is not broken
\* and has a non-replica node with a non-empty requests_pending or a request
\* of requests_to_send with has_write_handler set returns WAIT and leaves the
\* node list and the slot map as they were.
C1_Quiescence ==
    [][(last'.op = "updateCluster"
        /\ ~clusters[last'.c].broken
        /\ HasInFlight(last'.c))
       => /\ last'.status = "WAIT"
          /\ clusters'[last'.c].nodes = clusters[last'.c].nodes
          /\ clusters'[last'.c].slots_map = clusters[last'.c].slots_map
          /\ \A n \in SeqToSet(clusters[last'.c].nodes) : nodes'[n].alloc]_vars

\* updateCluster has just returned WAIT on a loaded cluster one of whose
\* masters has a request awaiting its reply and another being written.
C1_Witness ==
    /\ last.op = "updateCluster"
    /\ last.status = "WAIT"
    /\ clusters[last.c].slots_map # {}
    /\ \E n \in SeqToSet(clusters[last.c].nodes) :
          ~nodes[n].is_replica /\ nodes[n].requests_pending # <<>>
    /\ \E n \in SeqToSet(clusters[last.c].nodes) :
          ~nodes[n].is_replica /\ Writing(n) # {}

\* C2 (BROKEN is absorbing): a call of updateCluster that returns ERR leaves
\* the cluster broken; a broken cluster stays broken; and a call on a broken
\* cluster returns ERR and changes nothing, whatever the queues hold and
\* whatever the state of the backend.
C2_BrokenAbsorbing ==
    [][/\ (last'.op = "updateCluster" /\ last'.status = "ERR")
            => clusters'[last'.c].broken
       /\ \A c \in ClusterIds :
            (clusters[c].alloc /\ clusters[c].broken) => clusters'[c].broken
       /\ (last'.op = "updateCluster" /\ clusters[last'.c].broken)
            => /\ last'.status = "ERR"
               /\ last'.replayed = <<>>
               /\ clusters' = clusters
               /\ nodes' = nodes
               /\ requests' = requests
               /\ clients' = clients]_vars

\* updateCluster has just returned ERR although every backend node is
\* reachable again, on a cluster that has a node with a queued request and a
\* parked request.
C2_Witness ==
    /\ last.op = "updateCluster"
    /\ last.status = "ERR"
    /\ last.prev[1] = "updateCluster"
    /\ last.prev[3] = "ERR"
    /\ backend.fault = "none"
    /\ clusters[last.c].broken
    /\ clusters[last.c].requests_to_reprocess # {}
    /\ \E n \in SeqToSet(clusters[last.c].nodes) : nodes[n].requests_to_send # <<>>

\* The requests that are in requests_to_reprocess when a call of
\* updateCluster on c that has nothing to wait for reaches the replay: those
\* already parked and those its first loop parks.
ParkedAtReplay(c) ==
    {p[2] : p \in clusters[c].requests_to_reprocess}
    \cup UNION {SeqToSet(nodes[n].requests_to_send) :
                    n \in {m \in SeqToSet(clusters[c].nodes) : ~nodes[m].is_replica}}

C4_RoundTrip ==
    [][last'.op = "clusterRemoveRequestToReprocess"
       => /\ (/\ last.op = "clusterAddRequestToReprocess"
              /\ last.req = last'.req
              /\ last.c = last'.c
              /\ clusters[last.c].requests_to_reprocess = {<<ReprocessKey(last.req), last.req>>}
              /\ clients[ClientOf(last.req)].requests_to_reprocess = <<last.req>>)
            => /\ clusters'[last.c].requests_to_reprocess = {}
               /\ clients'[ClientOf(last.req)].requests_to_reprocess = <<>>
          /\ (/\ last'.req \notin {p[2] : p \in clusters[last'.c].requests_to_reprocess}
              /\ last'.req \notin SeqToSet(clients[ClientOf(last'.req)].requests_to_reprocess))
            => /\ clusters'[last'.c].requests_to_reprocess
                    = clusters[last'.c].requests_to_reprocess
               /\ clients' = clients]_vars

\* Every queue of every node of cluster c is empty.
QueuesEmpty(c) ==
    \A n \in SeqToSet(clusters[c].nodes) :
        nodes[n].requests_pending = <<>> /\ nodes[n].requests_to_send = <<>>

\* The discovery from the first node of c succeeds: there is such a node and
\* every backend node is reachable and answers.
DiscoverySucceeds(c) == clusters[c].nodes # <<>> /\ backend.fault = "none"

\* What can be observed of the topology of c: the nodes' addresses, names and
\* roles in list order, the slot map as slot to address, the flags and the
\* parked requests.
Observable(cs, ns, c) ==
    [nodes |-> [i \in 1..Len(cs[c].nodes) |->
                    <<ns[cs[c].nodes[i]].ip, ns[cs[c].nodes[i]].port,
                      ns[cs[c].nodes[i]].name, ns[cs[c].nodes[i]].is_replica>>],
     slots |-> {<<p[1], ns[p[2]].ip, ns[p[2]].port>> : p \in cs[c].slots_map},
     flags |-> <<cs[c].is_updating, cs[c].update_required, cs[c].broken>>,
     parked |-> cs[c].requests_to_reprocess]

\* C5 (Reconfiguration idempotence): a call of updateCluster on a cluster
\* that is not broken, whose queues are all empty and whose discovery
\* succeeds returns ENDED with is_updating and update_required cleared; and
\* when the call before it was an updateCluster on the same cluster that
\* returned ENDED, it leaves the observable state of the topology as that
\* call left it.
C5_Idempotence ==
    [][(/\ last'.op = "updateCluster"
        /\ ~clusters[last'.c].broken
        /\ QueuesEmpty(last'.c)
        /\ DiscoverySucceeds(last'.c))
       => /\ last'.status = "ENDED"
          /\ ~clusters'[last'.c].is_updating
          /\ ~clusters'[last'.c].update_required
          /\ (last.op = "updateCluster" /\ last.c = last'.c /\ last.status = "ENDED")
                => Observable(clusters', nodes', last'.c)
                     = Observable(clusters, nodes, last'.c)]_vars

\* updateCluster has returned ENDED twice in a row on a loaded cluster.
C5_Witness ==
    /\ last.op = "updateCluster"
    /\ last.status = "ENDED"
    /\ last.prev = <<"updateCluster", last.c, "ENDED">>
    /\ clusters[last.c].slots_map # {}
    /\ QueuesEmpty(last.c)


(***************************************************************************)
(* Properties of the loaded topology and of the routing (SpecLoad).        *)
(***************************************************************************)
AllSlots == 0..16383

\* The last call left cluster last.c loaded: fetchClusterConfiguration
\* returned success, by itself or within updateCluster.
LoadSucceeded ==
    \/ last.op = "fetchClusterConfiguration" /\ last.status = "OK"
    \/ last.op = "updateCluster" /\ last.status = "ENDED"

OwnersResolve(c) ==
    \A n \in SeqToSet(clusters[c].nodes) :
        \A s \in SeqToSet(nodes[n].slots) : searchNodeBySlot(World, c, s) = n

DeclaredDisjoint(c) ==
    \A n, m \in SeqToSet(clusters[c].nodes) :
        n # m => SeqToSet(nodes[n].slots) \cap SeqToSet(nodes[m].slots) = {}

C8_RoutingConsistency ==
    last.op = "getNodeByKey"
    => /\ last.node # NULL
            => /\ last.slot = clusterKeyHashSlot(last.key)
               /\ last.node = searchNodeBySlot(World, last.c, clusterKeyHashSlot(last.key))
       /\ last.node = NULL
            => /\ searchNodeBySlot(World, last.c, clusterKeyHashSlot(last.key)) = NULL
               /\ last.slot = -1

\* getNodeByKey has just returned NULL for a key on a loaded topology.
C8_Witness ==
    /\ last.op = "getNodeByKey"
    /\ last.node = NULL
    /\ clusters[last.c].slots_map # {}

(***************************************************************************)
(* Property of the hash-slot function (SpecHash).                          *)
(***************************************************************************)
\* The positions of the first '{' of k and of the first '}' after it.
FirstOpen(k) ==
    CHOOSE i \in 1..Len(k) : k[i] = OpenBrace /\ \A j \in 1..(i - 1) : k[j] # OpenBrace

FirstClose(k) ==
    CHOOSE i \in (FirstOpen(k) + 1)..Len(k) :
        k[i] = CloseBrace /\ \A j \in (FirstOpen(k) + 1)..(i - 1) : k[j] # CloseBrace

\* k has a first '{', a '}' after it, and something between the two.
HasValidTag(k) ==
    /\ \E i \in 1..Len(k) : k[i] = OpenBrace
    /\ \E i \in (FirstOpen(k) + 1)..Len(k) : k[i] = CloseBrace
    /\ FirstClose(k) > FirstOpen(k) + 1

TagOf(k) == SubSeq(k, FirstOpen(k) + 1, FirstClose(k) - 1)

\* C9 (Hash-tag law): the slot of a key with a valid tag is the slot of the
\* tag; the slot of any other key is crc16 of the whole key masked to 14
\* bits; the slot is always in 0..16383.
C9_HashTagLaw ==
    hslot # -1
    => /\ hslot \in AllSlots
       /\ HasValidTag(hkey) => hslot = clusterKeyHashSlot(TagOf(hkey))
       /\ ~HasValidTag(hkey) => hslot = crc16(hkey) % 16384

\* The slot of a key whose tag itself holds a '{' has been computed, and it
\* is not the slot of the whole key.
C9_Witness ==
    /\ hslot # -1
    /\ HasValidTag(hkey)
    /\ OpenBrace \in SeqToSet(TagOf(hkey))
    /\ hslot # crc16(hkey) % 16384

(***************************************************************************)
(* Property of the duplication and the destruction (SpecDup).              *)
(***************************************************************************)
\* No live cluster of cs names a freed cluster in duplicated_from or in
\* duplicates.
BackLinksLive(cs) ==
    \A c \in ClusterIds :
        cs[c].alloc
        => /\ cs[c].duplicated_from # NULL => cs[cs[c].duplicated_from].alloc
           /\ \A d \in SeqToSet(cs[c].duplicates) : cs[d].alloc

\* C10 (Topology back-links never dangle): after every call, no live
\* cluster names a freed cluster in duplicated_from or in duplicates;
\* freeCluster leaves duplicated_from NULL in every duplicate of the freed
\* cluster and the freed cluster out of its source's duplicates; a
\* duplicateCluster that fails leaves the source's duplicates as they were,
\* one that succeeds links the copy and the source to each other.
C10_BackLinksNeverDangle ==
    [][/\ BackLinksLive(clusters')
       /\ last'.op = "freeCluster"
            => /\ \A d \in SeqToSet(last'.dups) : clusters'[d].duplicated_from = NULL
               /\ last'.parent # NULL
                    => last'.c \notin SeqToSet(clusters'[last'.parent].duplicates)
       /\ (last'.op = "duplicateCluster" /\ last'.status # "OK")
            => clusters'[last'.c].duplicates = clusters[last'.c].duplicates
       /\ (last'.op = "duplicateCluster" /\ last'.status = "OK")
            => /\ clusters'[last'.c].duplicates
                    = Append(clusters[last'.c].duplicates, last'.dup)
               /\ clusters'[last'.dup].duplicated_from = last'.c]_vars

\* A cluster with two duplicates has just been freed and both duplicates
\* live on, with their nodes.
C10_Witness ==
    /\ last.op = "freeCluster"
    /\ Len(last.dups) = 2
    /\ \A d \in SeqToSet(last.dups) : clusters[d].alloc /\ clusters[d].nodes # <<>>


(***************************************************************************)
(* Properties of the nodes of duplicates (SpecDupReset, SpecDup).          *)
(***************************************************************************)
\* C11 (Node back-links never dangle), as the specification states it: in
\* every state, duplicated_from of every live node is NULL or names a node
\* that has not been freed.
C11_NodeBackLinks ==
    \A n \in LiveNodes :
        nodes[n].duplicated_from # NULL => nodes[nodes[n].duplicated_from].alloc

(***************************************************************************)
(* Properties of the copy (SpecCopy).                                      *)
(***************************************************************************)
\* What duplicateClusterNode copies of a node.
Copied(node) ==
    <<node.ip, node.port, node.name, node.is_replica, node.slots,
      node.migrating, node.importing>>

\* C12 (Duplicate equivalence): when duplicateCluster succeeds, the copy has
\* the thread id of the source and one new node per node of the source, in
\* the same order, with equal ip, port, name, role, slots, migrating and
\* importing, belonging to the copy, without transport and with empty
\* queues; the copy's slot map has the keys of the source's, each mapped to
\* a node of the copy that bears the name of the source's node for that
\* key; the source's nodes, slot map and queues and the requests are
\* unchanged.
C12_DuplicateEquivalence ==
    [][(last'.op = "duplicateCluster" /\ last'.status = "OK")
       => /\ clusters'[last'.dup].alloc
          /\ clusters'[last'.dup].thread_id = clusters[last'.c].thread_id
          /\ Len(clusters'[last'.dup].nodes) = Len(clusters[last'.c].nodes)
          /\ \A i \in 1..Len(clusters[last'.c].nodes) :
                /\ ~nodes[clusters'[last'.dup].nodes[i]].alloc
                /\ nodes'[clusters'[last'.dup].nodes[i]].alloc
                /\ Copied(nodes'[clusters'[last'.dup].nodes[i]])
                      = Copied(nodes[clusters[last'.c].nodes[i]])
                /\ nodes'[clusters'[last'.dup].nodes[i]].cluster = last'.dup
                /\ ~nodes'[clusters'[last'.dup].nodes[i]].context
                /\ ~nodes'[clusters'[last'.dup].nodes[i]].connected
                /\ nodes'[clusters'[last'.dup].nodes[i]].requests_pending = <<>>
                /\ nodes'[clusters'[last'.dup].nodes[i]].requests_to_send = <<>>
          /\ MapKeys(clusters'[last'.dup].slots_map) = MapKeys(clusters[last'.c].slots_map)
          /\ \A p \in clusters'[last'.dup].slots_map :
                /\ p[2] \in SeqToSet(clusters'[last'.dup].nodes)
                /\ p[2] \notin SeqToSet(clusters[last'.c].nodes)
                /\ nodes'[p[2]].name
                      = nodes[MapGet(clusters[last'.c].slots_map, p[1])].name
          /\ clusters'[last'.c].nodes = clusters[last'.c].nodes
          /\ clusters'[last'.c].slots_map = clusters[last'.c].slots_map
          /\ \A n \in SeqToSet(clusters[last'.c].nodes) : nodes'[n] = nodes[n]
          /\ requests' = requests]_vars

\* A topology with a connected node that has a queued request and a node
\* that has a migrating record has just been duplicated.
C12_Witness ==
    /\ last.op = "duplicateCluster"
    /\ last.status = "OK"
    /\ clusters[last.dup].slots_map # {}
    /\ \E n \in SeqToSet(clusters[last.c].nodes) :
          nodes[n].context /\ nodes[n].requests_to_send # <<>>
    /\ \E n \in SeqToSet(clusters[last.c].nodes) : nodes[n].migrating # <<>>

(***************************************************************************)
(* Properties of the failures (Spec, SpecLoad).                            *)
(***************************************************************************)
\* C13 (Broken topologies route to nothing), as the specification states
\* it: in every state where a topology's broken flag is set,
\* getFirstMappedNode, searchNodeBySlot and getNodeByKey return NULL for
\* every slot and key.
C13_BrokenRoutesNothing ==
    \A c \in LiveClusters :
        clusters[c].broken
        => /\ getFirstMappedNode(World, c) = NULL
           /\ \A s \in AllSlots : searchNodeBySlot(World, c, s) = NULL
           /\ \A r \in RequestIds : getNodeByKey(World, c, KeyOf(r), -1).node = NULL

\* C14 (Seed-connect failure leaves the topology unchanged): a call of
\* fetchClusterConfiguration whose seed does not accept the connection
\* returns failure and leaves the clusters (node list, slot map, parked
\* requests, flags), the nodes, the requests and the clients' lists as they
\* were.
C14_SeedConnectFailure ==
    [][(/\ last'.op = "fetchClusterConfiguration"
        /\ ~CanConnect(IpOf[last'.seed], PortOf[last'.seed]))
       => /\ last'.status = "FAIL"
          /\ clusters' = clusters
          /\ nodes' = nodes
          /\ requests' = requests
          /\ clients' = clients]_vars

\* fetchClusterConfiguration has just failed to connect to its seed on a
\* topology that holds nodes, a slot map and a parked request.
C14_Witness ==
    /\ last.op = "fetchClusterConfiguration"
    /\ last.status = "FAIL"
    /\ ~CanConnect(IpOf[last.seed], PortOf[last.seed])
    /\ clusters[last.c].nodes # <<>>
    /\ clusters[last.c].slots_map # {}
    /\ clusters[last.c].requests_to_reprocess # {}

(***************************************************************************)
(* Further properties of the reconfiguration (Spec).                       *)
(***************************************************************************)
\* The position at which request r was handed to processRequest by the last
\* call.
ReplayPos(replayed, r) == CHOOSE i \in 1..Len(replayed) : replayed[i].req = r

\* C15 (Order preservation across reconfiguration), as the specification
\* states it: when updateCluster returns ENDED, two requests of one client
\* that it parked from a node's requests_to_send queue are handed to
\* processRequest in the order they had in the queue.
C15_OrderPreserved ==
    [][(last'.op = "updateCluster" /\ last'.status = "ENDED")
       => \A n \in SeqToSet(clusters[last'.c].nodes) :
             ~nodes[n].is_replica
             => \A i, j \in 1..Len(nodes[n].requests_to_send) :
                   (/\ i < j
                    /\ ClientOf(nodes[n].requests_to_send[i])
                          = ClientOf(nodes[n].requests_to_send[j]))
                   => ReplayPos(last'.replayed, nodes[n].requests_to_send[i])
                         < ReplayPos(last'.replayed, nodes[n].requests_to_send[j])]_vars

\* C16 (Update flags): a call of updateCluster that returns WAIT leaves
\* is_updating set; one that returns ENDED leaves is_updating and
\* update_required clear; one that returns WAIT or ERR leaves update_required
\* as it was; and broken follows the ERR results: a call that returns ERR
\* leaves the topology broken, a topology becomes broken only in a call of
\* updateCluster on it that returns ERR, and a broken topology stays broken
\* for as long as it lives (a topology starts with broken clear, so broken is
\* set exactly when an earlier call returned ERR).
C16_UpdateFlags ==
    [][/\ (last'.op = "updateCluster" /\ last'.status = "WAIT")
            => clusters'[last'.c].is_updating
       /\ (last'.op = "updateCluster" /\ last'.status = "ENDED")
            => /\ ~clusters'[last'.c].is_updating
               /\ ~clusters'[last'.c].update_required
       /\ (last'.op = "updateCluster" /\ last'.status \in {"WAIT", "ERR"})
            => clusters'[last'.c].update_required = clusters[last'.c].update_required
       /\ (last'.op = "updateCluster" /\ last'.status = "ERR")
            => clusters'[last'.c].broken
       /\ \A c \in ClusterIds :
            /\ (/\ clusters'[c].alloc /\ clusters'[c].broken
                /\ ~(clusters[c].alloc /\ clusters[c].broken))
                 => /\ last'.op = "updateCluster" /\ last'.c = c
                    /\ last'.status = "ERR"
            /\ (clusters[c].alloc /\ clusters[c].broken /\ clusters'[c].alloc)
                 => clusters'[c].broken]_vars

\* A call returned WAIT on a topology for which an update had been asked.
C16_Witness ==
    /\ last.op = "updateCluster" /\ last.status = "WAIT"
    /\ clusters[last.c].is_updating
    /\ clusters[last.c].update_required

(***************************************************************************)
(* Properties of the migration records (SpecCopy).                         *)
(***************************************************************************)
\* The record of the backend node called name under configuration cfg.
RecordOf(cfg, name) ==
    Configs[cfg][CHOOSE i \in 1..Len(Configs[cfg]) : Configs[cfg][i].name = name]

\* The (slot, counterpart) pairs that the specs of one kind declare, in the
\* order of the record, as the flat array holds them.
RECURSIVE PairsOf(_, _)
PairsOf(specs, kind) ==
    IF specs = <<>> THEN <<>>
    ELSE (IF specs[1].kind = kind THEN <<ToString(specs[1].a), specs[1].peer>>
          ELSE <<>>) \o PairsOf(Tail(specs), kind)

\* The slots that the ranges and single slots of a record declare, in the
\* order of the record.
RECURSIVE OwnedSlots(_)
OwnedSlots(specs) ==
    IF specs = <<>> THEN <<>>
    ELSE (IF specs[1].kind \in {"range", "slot"}
          THEN SlotsOfRange(specs[1].a, specs[1].b) ELSE <<>>)
         \o OwnedSlots(Tail(specs))

\* The slots a record names as the end of a range or as a single slot.
OwnedEnds(specs) ==
    UNION {{specs[i].a, specs[i].b} : i \in {j \in 1..Len(specs) :
                                              specs[j].kind \in {"range", "slot"}}}

\* C17 (Migration records): the migrating and importing arrays of every node
\* have an even length; after a successful load each node's arrays hold the
\* (slot, counterpart) pairs of its record in record order, its slots list
\* holds the slots of the record's ranges and single slots only, and every
\* key of the slot map is an end of a range or a single slot of the record
\* of the node it maps to, so that a migrating or importing spec adds one
\* pair and no slot; and a duplicated node has the pairs of its source.
C17_MigrationRecords ==
    [][/\ \A n \in NodeIds :
            nodes'[n].alloc => /\ Len(nodes'[n].migrating) % 2 = 0
                               /\ Len(nodes'[n].importing) % 2 = 0
       /\ (last'.op = "fetchClusterConfiguration" /\ last'.status = "OK")
            => /\ \A n \in SeqToSet(clusters'[last'.c].nodes) :
                    /\ nodes'[n].migrating
                          = PairsOf(RecordOf(backend.cfg, nodes'[n].name).specs, "migrating")
                    /\ nodes'[n].importing
                          = PairsOf(RecordOf(backend.cfg, nodes'[n].name).specs, "importing")
                    /\ nodes'[n].slots
                          = OwnedSlots(RecordOf(backend.cfg, nodes'[n].name).specs)
               /\ \A p \in clusters'[last'.c].slots_map :
                    p[1] \in OwnedEnds(RecordOf(backend.cfg, nodes'[p[2]].name).specs)
       /\ (last'.op = "duplicateCluster" /\ last'.status = "OK")
            => \A i \in 1..Len(clusters[last'.c].nodes) :
                  /\ nodes'[clusters'[last'.dup].nodes[i]].migrating
                        = nodes[clusters[last'.c].nodes[i]].migrating
                  /\ nodes'[clusters'[last'.dup].nodes[i]].importing
                        = nodes[clusters[last'.c].nodes[i]].importing]_vars

\* A topology loaded while two slots were being migrated has been
\* duplicated: the duplicate has a node with two migrating pairs and a node
\* with two importing pairs.
C17_Witness ==
    /\ last.op = "duplicateCluster" /\ last.status = "OK"
    /\ \E n \in SeqToSet(clusters[last.dup].nodes) : Len(nodes[n].migrating) = 4
    /\ \E n \in SeqToSet(clusters[last.dup].nodes) :
          /\ Len(nodes[n].importing) = 4
          /\ 3300 \notin SeqToSet(nodes[n].slots)

(***************************************************************************)
(* Properties of the park step and of the parked requests (Spec).          *)
(***************************************************************************)
\* The requests of a queue that are being written, in the order of the queue.
Written(queue) == SelectSeq(queue, LAMBDA r : requests[r].has_write_handler)

\* The requests a rax of parked requests holds.
MapValues(map) == {p[2] : p \in map}

\* C18 (Park step): over a call of updateCluster on a topology that is not
\* broken, every request that waited unwritten in the requests_to_send queue
\* of a node that is not a replica has been parked: when the call returns
\* WAIT or ERR the request is in no queue, is in requests_to_reprocess and in
\* its client's list and needs reprocessing; when it returns ENDED the
\* request was handed to processRequest as clusterAddRequestToReprocess left
\* it; and when the call returns WAIT the requests_pending queues are
\* unchanged and each requests_to_send queue keeps, in order, the requests
\* that are being written, and only them.
C18_ParkStep ==
    [][(last'.op = "updateCluster" /\ ~clusters[last'.c].broken)
       => /\ \A r \in Parkable(World, last'.c) :
                /\ last'.status \in {"WAIT", "ERR"}
                     => /\ \A n \in NodeIds :
                              nodes'[n].alloc
                              => /\ r \notin SeqToSet(nodes'[n].requests_to_send)
                                 /\ r \notin SeqToSet(nodes'[n].requests_pending)
                        /\ r \in MapValues(clusters'[last'.c].requests_to_reprocess)
                        /\ r \in SeqToSet(clients'[ClientOf(r)].requests_to_reprocess)
                        /\ requests'[r].need_reprocessing
                /\ last'.status = "ENDED"
                     => \E i \in 1..Len(last'.replayed) :
                           /\ last'.replayed[i].req = r
                           /\ last'.replayed[i].node = NULL
                           /\ last'.replayed[i].slot = -1
                           /\ last'.replayed[i].written = 0
          /\ last'.status = "WAIT"
                => /\ clusters'[last'.c].nodes = clusters[last'.c].nodes
                   /\ \A n \in SeqToSet(clusters[last'.c].nodes) :
                         /\ nodes'[n].requests_pending = nodes[n].requests_pending
                         /\ nodes'[n].requests_to_send
                               = IF nodes[n].is_replica THEN nodes[n].requests_to_send
                                 ELSE Written(nodes[n].requests_to_send)]_vars

\* A call returned WAIT after it parked a request, and left in a queue the
\* request that was being written.
C18_Witness ==
    /\ last.op = "updateCluster" /\ last.status = "WAIT"
    /\ last.parked # {}
    /\ \E n \in SeqToSet(clusters[last.c].nodes) :
          /\ nodes[n].requests_to_send # <<>>
          /\ \A i \in 1..Len(nodes[n].requests_to_send) :
                requests[nodes[n].requests_to_send[i]].has_write_handler

(***************************************************************************)
(* Progress of the reconfiguration (SpecLive).                             *)
(***************************************************************************)
\* The last call was one of updateCluster with the given results.
Returned(statuses) == last.op = "updateCluster" /\ last.status \in statuses

C20_FailedKeepsParked ==
    /\ [][(last'.op = "updateCluster" /\ last'.status = "ERR")
          => /\ clusters[last'.c].requests_to_reprocess
                   \subseteq clusters'[last'.c].requests_to_reprocess
             /\ \A r \in MapValues(clusters[last'.c].requests_to_reprocess) :
                   /\ requests'[r].alloc
                   /\ requests'[r].need_reprocessing
                   /\ r \in SeqToSet(clients'[ClientOf(r)].requests_to_reprocess)
             /\ last'.replayed = <<>>]_vars
    /\ [](\A c \in LiveClusters :
            /\ resetCluster(World, c).clusters[c].requests_to_reprocess
                  = clusters[c].requests_to_reprocess
            /\ resetCluster(World, c).clients = clients
            /\ \A r \in MapValues(clusters[c].requests_to_reprocess) :
                  resetCluster(World, c).requests[r] = requests[r])

\* A call on a topology that was not being updated and held parked requests
\* returned ERR: the discovery reached the seed and failed on a friend.
C20_Witness ==
    /\ Returned({"ERR"})
    /\ ~last.was_updating
    /\ last.parked = {}
    /\ clusters[last.c].requests_to_reprocess # {}
    /\ clusters[last.c].nodes # <<>>

(***************************************************************************)
(* Properties of the discovery (SpecLoad).                                 *)
(***************************************************************************)
\* The records of the reply of backend node seed that are not its own, in
\* the order of the reply.
Others(cfg, seed) == SelectSeq(NodesReply(cfg, seed), LAMBDA rec : "myself" \notin rec.flags)

\* fetchClusterConfiguration has just succeeded on topology last.c.
Fetched == last.op = "fetchClusterConfiguration" /\ last.status = "OK"

\* The node list after the discovery: the seed first, then one node per
\* other record of the seed's reply in the order of the reply, no node twice,
\* and no node of the topology outside the list.
ExpandedOnce(c, cfg, seed) ==
    /\ Len(clusters[c].nodes) = Len(Others(cfg, seed)) + 1
    /\ nodes[clusters[c].nodes[1]].ip = IpOf[seed]
    /\ nodes[clusters[c].nodes[1]].port = PortOf[seed]
    /\ nodes[clusters[c].nodes[1]].name = seed
    /\ \A i \in 1..Len(Others(cfg, seed)) :
          /\ nodes[clusters[c].nodes[i + 1]].ip = Others(cfg, seed)[i].ip
          /\ nodes[clusters[c].nodes[i + 1]].port = Others(cfg, seed)[i].port
          /\ nodes[clusters[c].nodes[i + 1]].name = Others(cfg, seed)[i].name
    /\ \A i, j \in 1..Len(clusters[c].nodes) :
          i # j => clusters[c].nodes[i] # clusters[c].nodes[j]
    /\ \A n \in NodeIds :
          (nodes[n].alloc /\ nodes[n].cluster = c) => n \in SeqToSet(clusters[c].nodes)

\* The entries that the own records of the nodes of c declare: a range
\* declares its two ends, a single slot itself.
DeclaredEntries(c, cfg) ==
    UNION {{<<e, n>> : e \in OwnedEnds(RecordOf(cfg, nodes[n].name).specs)} :
              n \in SeqToSet(clusters[c].nodes)}

C22_NoOrphans ==
    last.op \in {"fetchClusterConfiguration", "updateCluster"}
    => /\ last.leaked = 0
       /\ \A n \in NodeIds :
             (nodes[n].alloc /\ nodes[n].cluster = last.c)
                => n \in SeqToSet(clusters[last.c].nodes)
       /\ \A p \in clusters[last.c].slots_map : nodes[p[2]].alloc

(***************************************************************************)
(* The order of the teardown (SpecDup).                                    *)
(***************************************************************************)
\* In world w a duplicate holds a back-link into topology c: a topology
\* whose duplicated_from is c, or a node whose duplicated_from is one of the
\* given nodes of c.
BackLinked(w, c, list) ==
    \/ \E d \in ClusterIds : w.clusters[d].alloc /\ w.clusters[d].duplicated_from = c
    \/ \E n \in NodeIds :
          /\ w.nodes[n].alloc
          /\ w.nodes[n].duplicated_from # NULL
          /\ w.nodes[n].duplicated_from \in SeqToSet(list)

\* C23 (Teardown order of freeCluster), as the specification states it:
\* within a call of freeCluster, when the nodes of the topology are freed
\* (the slot map has been released) no duplicate holds a back-link into the
\* topology, and when the rax of the parked requests is released the
\* back-links have been nulled.
C23_TeardownOrder ==
    [][(last'.op = "freeCluster" /\ clusters[last'.c].nodes # <<>>)
       => /\ ~BackLinked(FreedMap(World, last'.c), last'.c, clusters[last'.c].nodes)
          /\ ~BackLinked(FreedNodes(World, last'.c), last'.c, clusters[last'.c].nodes)]_vars

C25_ParkedInvariant ==
    /\ \A r \in RequestIds :
          requests[r].alloc
          => (r \in MapValues(clusters[1].requests_to_reprocess)
                 <=> requests[r].need_reprocessing)
    /\ \A p \in clusters[1].requests_to_reprocess :
          /\ requests[p[2]].alloc
          /\ requests[p[2]].node = NULL
          /\ requests[p[2]].slot = -1
          /\ requests[p[2]].written = 0
          /\ p[1] = ReprocessKey(p[2])
    /\ \A p, q \in clusters[1].requests_to_reprocess :
          (ClientOf(p[2]) = ClientOf(q[2]) /\ ReqIdOf(p[2]) = ReqIdOf(q[2])) => p = q

\* One of two parked requests has just been taken back: it is allocated
\* without need_reprocessing, the other is still in the rax.
C25_Witness ==
    /\ last.op = "clusterRemoveRequestToReprocess"
    /\ requests[last.req].alloc
    /\ ~requests[last.req].need_reprocessing
    /\ requests[last.req].written = 0
    /\ Cardinality(clusters[1].requests_to_reprocess) = 1
    /\ last.req \in SeqToSet(clients[ClientOf(last.req)].requests_to_reprocess)

(***************************************************************************)
(* The seed of the reconfiguration (SpecLoad).                             *)
(***************************************************************************)
\* C26 (Seed stability): a call of updateCluster that reconfigures a
\* topology (not broken, with nodes, nothing to wait for) discovers from the
\* address of the first node of the list, replica or not: when it returns
\* ENDED the first node of the new list has that address and bears the name
\* of the backend node at that address; when no connection to that address
\* can be opened it returns ERR and leaves the topology broken, whatever the
\* other nodes; and when the whole backend is healthy it returns ENDED.
C26_SeedStability ==
    [][(/\ last'.op = "updateCluster"
        /\ ~clusters[last'.c].broken
        /\ clusters[last'.c].nodes # <<>>
        /\ last'.status # "WAIT")
       => /\ last'.status = "ENDED"
             => /\ nodes'[clusters'[last'.c].nodes[1]].ip
                      = nodes[clusters[last'.c].nodes[1]].ip
                /\ nodes'[clusters'[last'.c].nodes[1]].port
                      = nodes[clusters[last'.c].nodes[1]].port
                /\ nodes'[clusters'[last'.c].nodes[1]].name
                      = BackendAt(nodes[clusters[last'.c].nodes[1]].ip,
                                  nodes[clusters[last'.c].nodes[1]].port)
          /\ ~CanConnect(nodes[clusters[last'.c].nodes[1]].ip,
                         nodes[clusters[last'.c].nodes[1]].port)
             => /\ last'.status = "ERR"
                /\ clusters'[last'.c].broken
          /\ backend.fault = "none" => last'.status = "ENDED"]_vars

\* A topology discovered from the replica C has been reconfigured twice in a
\* row: C is still the first node of its list.
C26_Witness ==
    /\ Returned({"ENDED"})
    /\ last.prev = <<"updateCluster", last.c, "ENDED">>
    /\ last.seed = "C"
    /\ nodes[clusters[last.c].nodes[1]].name = "C"
    /\ nodes[clusters[last.c].nodes[1]].is_replica


====
